---- MODULE Spec2Model ----
(***************************************************************************)
(* Model of OptimizePath.cpp: main reads a list of 3D points, computes the *)
(* length of the path in input order, reorders the points with the greedy  *)
(* nearest-neighbour heuristic optimizePath, computes the length of the    *)
(* reordered path and writes the points in the new order.                  *)
(*                                                                         *)
(* Point indices are the C++ 0-based indices; TLA+ sequences are 1-based,  *)
(* so the point with index k is pts[k + 1].  Distances are doubles in the  *)
(* program; here a distance is the fixed-point value                       *)
(* floor(Scale * sqrt(d2)) of the squared distance d2.                     *)
(***************************************************************************)
EXTENDS Integers, Sequences, FiniteSets, TLC

\* ---------------------------------------------------------------- bounds
MaxN == 4          \* most points readPoints returns
Scale == 1000      \* fixed-point units per unit of length
MaxLenPts == 2     \* LenSpec: most points
MaxLenOrder == 3   \* LenSpec: longest order handed to computePathLength

XVals == {0, 10, 20}
YVals == {0, 10}
ZVals == {0, 10}
Grid == XVals \X YVals \X ZVals

ArgcVals == {1, 2, 3}

\* the point lists an input file can hold
Inputs == UNION {[1..n -> Grid] : n \in 0..MaxN}

\* the point lists on the x axis
LineInputs == UNION {[1..n -> XVals \X {0} \X {0}] : n \in 0..MaxN}

VARIABLES pc, argc, input, pts, origOrder, origLen, remaining, order, current,
          iters, optOrder, optLen, out, exitStatus, errMsg, calls

vars == <<pc, argc, input, pts, origOrder, origLen, remaining, order, current,
          iters, optOrder, optLen, out, exitStatus, errMsg, calls>>

\* ------------------------------------------------------- pure functions
\* numeric_limits<double>::max(), the initial bestDist
DoubleMax == 2147483647

RECURSIVE SqrtBetween(_, _, _)
SqrtBetween(x, lo, hi) ==
    IF lo = hi THEN lo
    ELSE LET mid == (lo + hi + 1) \div 2
         IN IF mid * mid <= x THEN SqrtBetween(x, mid, hi)
                              ELSE SqrtBetween(x, lo, mid - 1)

\* dx*dx + dy*dy + dz*dz
SquaredDist(a, b) ==
    LET dx == a[1] - b[1]
        dy == a[2] - b[2]
        dz == a[3] - b[3]
    IN dx * dx + dy * dy + dz * dz

SquaredDists == {SquaredDist(a, b) : a \in Grid, b \in Grid}

\* sqrt over the squared distances that occur, in fixed point
SqrtTable == [x \in SquaredDists |-> SqrtBetween(x * Scale * Scale, 0, 46340)]

sqrt(x) == SqrtTable[x]

\* sqrt(dx*dx + dy*dy + dz*dz) between two points
Dist(a, b) == sqrt(SquaredDist(a, b))

\* iota(v.begin(), v.end(), 0) on a vector of n entries
Iota(n) == [i \in 1..n |-> i - 1]

EraseFirst(s, i) == SubSeq(s, 2, Len(s))

EraseToEnd(s, i) == SubSeq(s, 1, i - 1)

\* vector::erase(begin() + (i-1)): drop the entry at 1-based position i
Erase(s, i) == SubSeq(s, 1, i - 1) \o SubSeq(s, i + 1, Len(s))

PathLoopClosed(p, ord, i, total) ==
    LET RECURSIVE Go(_, _)
        Go(j, t) == IF j < Len(ord)
                    THEN Go(j + 1, t + Dist(p[ord[j + 1] + 1], p[ord[j] + 1]))
                    ELSE t
    IN IF Len(ord) = 0 THEN 0
       ELSE Go(i, total) + Dist(p[ord[Len(ord)] + 1], p[ord[1] + 1])

\* the for loop of computePathLength; i is the C++ loop index
RECURSIVE PathLoop(_, _, _, _)
PathLoop(p, ord, i, total) ==
    IF i < Len(ord)
    THEN PathLoop(p, ord, i + 1,
                  total + Dist(p[ord[i + 1] + 1], p[ord[i] + 1]))
    ELSE total

computePathLength(p, ord) == PathLoop(p, ord, 1, 0)

CloserOrEqual(d, bestDist) == d <= bestDist

\* the test d < bestDist of the inner scan
Closer(d, bestDist) == d < bestDist

\* the inner for loop of optimizePath: i and bestIdx are 1-based positions
\* in rem (C++ position + 1)
RECURSIVE ScanFrom(_, _, _, _, _, _)
ScanFrom(p, rem, cur, i, bestDist, bestIdx) ==
    IF i <= Len(rem)
    THEN LET d == Dist(p[rem[i] + 1], p[cur + 1])
         IN IF Closer(d, bestDist)
            THEN ScanFrom(p, rem, cur, i + 1, d, i)
            ELSE ScanFrom(p, rem, cur, i + 1, bestDist, bestIdx)
    ELSE bestIdx

RECURSIVE ScanFarFrom(_, _, _, _, _, _)
ScanFarFrom(p, rem, cur, i, bestDist, bestIdx) ==
    IF i <= Len(rem)
    THEN LET d == Dist(p[rem[i] + 1], p[cur + 1])
         IN IF d > bestDist
            THEN ScanFarFrom(p, rem, cur, i + 1, d, i)
            ELSE ScanFarFrom(p, rem, cur, i + 1, bestDist, bestIdx)
    ELSE bestIdx

ScanFarthest(p, rem, cur) == ScanFarFrom(p, rem, cur, 1, 0, 1)

\* bestDist = max double, bestIdx = 0, then the scan
ScanNearest(p, rem, cur) == ScanFrom(p, rem, cur, 1, DoubleMax, 1)

\* the rows writeReorderedPoints writes, one per entry of the order
Rows(p, ord) == [k \in 1..Len(ord) |-> p[ord[k] + 1]]

\* ----------------------------------------------------------------- main
\* the state at the start of main; the input file is not looked at when
\* argc < 3
Start(files) ==
    /\ pc = "start"
    /\ argc \in ArgcVals
    /\ input \in (IF argc < 3 THEN {<<>>} ELSE files)
    /\ pts = <<>>
    /\ origOrder = <<>>
    /\ origLen = 0
    /\ remaining = <<>>
    /\ order = <<>>
    /\ current = 0
    /\ iters = 0
    /\ optOrder = <<>>
    /\ optLen = 0
    /\ out = <<>>
    /\ exitStatus = -1
    /\ errMsg = ""
    /\ calls = <<>>

Init == Start(Inputs)

InitLine == Start(LineInputs)

\* argc < 3: usage message, return 1
Usage ==
    /\ pc = "start"
    /\ argc < 3
    /\ errMsg' = "usage"
    /\ exitStatus' = 1
    /\ pc' = "exit"
    /\ UNCHANGED <<argc, input, pts, origOrder, origLen, remaining, order, current,
                   iters, optOrder, optLen, out, calls>>

\* argc >= 3: file names taken, ROOT application constructed
ArgsOk ==
    /\ pc = "start"
    /\ ~(argc < 3)
    /\ pc' = "read"
    /\ UNCHANGED <<argc, input, pts, origOrder, origLen, remaining, order, current,
                   iters, optOrder, optLen, out, exitStatus, errMsg, calls>>

ReadPointsUnchecked ==
    /\ pc = "read"
    /\ pts' = input
    /\ pc' = "origlen"
    /\ UNCHANGED <<argc, input, origOrder, origLen, remaining, order, current,
                   iters, optOrder, optLen, out, calls, errMsg, exitStatus>>

\* pts = readPoints(inFile, 3); an empty result is an error, return 1
ReadPoints ==
    /\ pc = "read"
    /\ pts' = input
    /\ IF input = <<>>
       THEN /\ errMsg' = "no points"
            /\ exitStatus' = 1
            /\ pc' = "exit"
       ELSE /\ pc' = "origlen"
            /\ UNCHANGED <<errMsg, exitStatus>>
    /\ UNCHANGED <<argc, input, origOrder, origLen, remaining, order, current,
                   iters, optOrder, optLen, out, calls>>

\* origOrder = identity; origLen = computePathLength(pts, origOrder)
ComputeInitial ==
    /\ pc = "origlen"
    /\ origOrder' = Iota(Len(pts))
    /\ origLen' = computePathLength(pts, origOrder')
    /\ calls' = Append(calls, "computePathLength")
    /\ pc' = "optimize"
    /\ UNCHANGED <<argc, input, pts, remaining, order, current, iters, optOrder,
                   optLen, out, exitStatus, errMsg>>

OptimizeEnterLast ==
    /\ pc = "optimize"
    /\ current' = Len(pts) - 1
    /\ order' = <<Len(pts) - 1>>
    /\ remaining' = SubSeq(Iota(Len(pts)), 1, Len(pts) - 1)
    /\ iters' = 0
    /\ calls' = Append(calls, "optimizePath")
    /\ pc' = "loop"
    /\ UNCHANGED <<argc, input, pts, origOrder, origLen, optOrder, optLen, out,
                   exitStatus, errMsg>>

\* optimizePath up to the loop: remaining = 0..n-1, current = 0 is pushed
\* on order and erased from the front of remaining
OptimizeEnter ==
    /\ pc = "optimize"
    /\ current' = 0
    /\ order' = <<0>>
    /\ remaining' = Erase(Iota(Len(pts)), 1)
    /\ iters' = 0
    /\ calls' = Append(calls, "optimizePath")
    /\ pc' = "loop"
    /\ UNCHANGED <<argc, input, pts, origOrder, origLen, optOrder, optLen, out,
                   exitStatus, errMsg>>

LoopIterStale ==
    /\ pc = "loop"
    /\ remaining # <<>>
    /\ LET bestIdx == ScanNearest(pts, remaining, current)
       IN /\ current' = current
          /\ order' = Append(order, remaining[bestIdx])
          /\ remaining' = Erase(remaining, bestIdx)
    /\ iters' = iters + 1
    /\ UNCHANGED <<pc, argc, input, pts, origOrder, origLen, optOrder, optLen, out,
                   exitStatus, errMsg, calls>>

\* one iteration of while (!remaining.empty())
LoopIter ==
    /\ pc = "loop"
    /\ remaining # <<>>
    /\ LET bestIdx == ScanNearest(pts, remaining, current)
       IN /\ current' = remaining[bestIdx]
          /\ order' = Append(order, remaining[bestIdx])
          /\ remaining' = Erase(remaining, bestIdx)
    /\ iters' = iters + 1
    /\ UNCHANGED <<pc, argc, input, pts, origOrder, origLen, optOrder, optLen, out,
                   exitStatus, errMsg, calls>>

\* the loop ends, optimizePath returns order; optLen is computed and both
\* lengths are printed
LoopExit ==
    /\ pc = "loop"
    /\ remaining = <<>>
    /\ optOrder' = order
    /\ optLen' = computePathLength(pts, order)
    /\ calls' = Append(calls, "computePathLength")
    /\ pc' = "write"
    /\ UNCHANGED <<argc, input, pts, origOrder, origLen, remaining, order, current,
                   iters, out, exitStatus, errMsg>>

\* writeReorderedPoints: the output file cannot be opened, exit(1)
WriteFail ==
    /\ pc = "write"
    /\ calls' = Append(calls, "writeReorderedPoints")
    /\ errMsg' = "cannot open output file"
    /\ exitStatus' = 1
    /\ pc' = "exit"
    /\ UNCHANGED <<argc, input, pts, origOrder, origLen, remaining, order, current,
                   iters, optOrder, optLen, out>>

\* writeReorderedPoints: one row per entry of optOrder
WriteOk ==
    /\ pc = "write"
    /\ calls' = Append(calls, "writeReorderedPoints")
    /\ out' = Rows(pts, optOrder)
    /\ pc' = "gui"
    /\ UNCHANGED <<argc, input, pts, origOrder, origLen, remaining, order, current,
                   iters, optOrder, optLen, exitStatus, errMsg>>

\* the canvases are drawn, app.Run() returns, return 0
Visualize ==
    /\ pc = "gui"
    /\ exitStatus' = 0
    /\ pc' = "exit"
    /\ UNCHANGED <<argc, input, pts, origOrder, origLen, remaining, order, current,
                   iters, optOrder, optLen, out, errMsg, calls>>

Next ==
    \/ Usage
    \/ ArgsOk
    \/ ReadPoints
    \/ ComputeInitial
    \/ OptimizeEnter
    \/ LoopIter
    \/ LoopExit
    \/ WriteFail
    \/ WriteOk
    \/ Visualize

Spec == Init /\ [][Next]_vars

\* the same program on inputs on the x axis; main runs to its end
LineSpec == InitLine /\ [][Next]_vars /\ WF_vars(Next)

\* ------------------------------------------ computePathLength on its own
LenInit ==
    /\ pc = "len_call"
    /\ argc = 3
    /\ input = <<>>
    /\ \E n \in 1..MaxLenPts :
         /\ pts \in [1..n -> Grid]
         /\ \E m \in 0..MaxLenOrder : origOrder \in [1..m -> 0..(n - 1)]
    /\ origLen = 0
    /\ remaining = <<>>
    /\ order = <<>>
    /\ current = 0
    /\ iters = 0
    /\ optOrder = <<>>
    /\ optLen = 0
    /\ out = <<>>
    /\ exitStatus = -1
    /\ errMsg = ""
    /\ calls = <<>>

\* origLen = computePathLength(pts, origOrder) for any order over the points
ApplyLength ==
    /\ pc = "len_call"
    /\ origLen' = computePathLength(pts, origOrder)
    /\ calls' = Append(calls, "computePathLength")
    /\ pc' = "len_ret"
    /\ UNCHANGED <<argc, input, pts, origOrder, remaining, order, current,
                   iters, optOrder, optLen, out, exitStatus, errMsg>>

LenNext == ApplyLength

LenSpec == LenInit /\ [][LenNext]_vars

\* --------------------------------------------------------------- claims
\* optimizePath has returned: the second computePathLength call was made
Returned == Len(calls) >= 3

N == Len(pts)

\* the order with the entries at 0-based positions i..j reversed
Reversed(ord, i, j) ==
    [k \in 1..Len(ord) |->
        IF k - 1 >= i /\ k - 1 <= j THEN ord[(i + j - (k - 1)) + 1]
                                    ELSE ord[k]]

\* the sum of the consecutive distances, front to back
RECURSIVE EdgeSum(_, _)
EdgeSum(p, ord) ==
    IF Len(ord) <= 1 THEN 0
    ELSE Dist(p[ord[1] + 1], p[ord[2] + 1]) + EdgeSum(p, Tail(ord))

\* the indices absent from the first k - 1 entries of ord
Unvisited(ord, k) == {i \in 0..(N - 1) : \A j \in 1..(k - 1) : ord[j] # i}

\* C1: the order optimizePath returns is a permutation of [0, n): n entries,
\* every index 0..n-1 present, none twice.
C1_Permutation ==
    Returned =>
        /\ Len(optOrder) = N
        /\ \A k \in 0..(N - 1) :
             Cardinality({i \in 1..Len(optOrder) : optOrder[i] = k}) = 1

C1_Witness == Returned /\ N >= 3 /\ optOrder # origOrder

\* C2 as stated: the optimized path is never longer than the input-order path.
C2_NeverLonger == Returned => optLen <= origLen

\* C2 amended: with at most three points the optimized path is never longer
\* than the input-order path, and the first edge of the optimized path is
\* never longer than the first edge of the input-order path.
C2_NeverLongerUpToThree ==
    Returned =>
        /\ N <= 3 => optLen <= origLen
        /\ N >= 2 => Dist(pts[optOrder[1] + 1], pts[optOrder[2] + 1])
                        <= Dist(pts[1], pts[2])

C2_Witness == Returned /\ N = 3 /\ optLen < origLen

\* C3: every entry after the first is, among the indices not yet in the
\* order, one nearest to the previous entry, and the lowest index among
\* those at that minimum distance.
C3_NearestLowest ==
    Returned =>
        \A k \in 2..Len(optOrder) :
            LET prev == pts[optOrder[k - 1] + 1]
                here == optOrder[k]
            IN /\ here \in Unvisited(optOrder, k)
               /\ \A u \in Unvisited(optOrder, k) :
                    /\ Dist(pts[here + 1], prev) <= Dist(pts[u + 1], prev)
                    /\ Dist(pts[u + 1], prev) = Dist(pts[here + 1], prev)
                          => here <= u

\* a returned order in which some choice was between two different points at
\* the same minimum distance
C3_Witness ==
    /\ Returned
    /\ \E k \in 2..Len(optOrder) : \E u \in Unvisited(optOrder, k) :
         /\ u # optOrder[k]
         /\ pts[u + 1] # pts[optOrder[k] + 1]
         /\ Dist(pts[u + 1], pts[optOrder[k - 1] + 1])
              = Dist(pts[optOrder[k] + 1], pts[optOrder[k - 1] + 1])

\* C4: the first entry of the returned order is index 0, whatever the
\* coordinates are.
C4_StartsAtZero == Returned => Len(optOrder) >= 1 /\ optOrder[1] = 0

\* point 0 is neither at the origin nor nearest to it, and still comes first
C4_Witness ==
    /\ Returned
    /\ N >= 2
    /\ optOrder[1] = 0
    /\ SquaredDist(pts[1], <<0, 0, 0>>) > SquaredDist(pts[2], <<0, 0, 0>>)

\* C6: with zero points read main ends with status 1 and the "no points"
\* error, having called neither optimizePath nor computePathLength nor
\* writeReorderedPoints; optimizePath is never called on an empty set.
C6_EmptyRejected ==
    /\ (pc \notin {"start", "read"} /\ ~(argc < 3) /\ pts = <<>>) =>
          /\ pc = "exit"
          /\ exitStatus = 1
          /\ errMsg = "no points"
          /\ calls = <<>>
          /\ out = <<>>
    /\ (\E i \in 1..Len(calls) : calls[i] = "optimizePath") => pts # <<>>

\* C5: computePathLength returns the sum of the distances between
\* consecutive entries of the order, len-1 edges, none from the last entry
\* back to the first, and 0 for an order of 0 or 1 entries.
C5_SumOfEdges ==
    pc = "len_ret" =>
        /\ origLen = EdgeSum(pts, origOrder)
        /\ Len(origOrder) <= 1 => origLen = 0
        /\ Len(origOrder) = 2 =>
              origLen = Dist(pts[origOrder[1] + 1], pts[origOrder[2] + 1])

\* an order of three entries that ends away from where it starts
C5_Witness ==
    /\ pc = "len_ret"
    /\ Len(origOrder) = 3
    /\ origLen > 0
    /\ Dist(pts[origOrder[3] + 1], pts[origOrder[1] + 1]) > 0

C6_Witness == pc = "exit" /\ argc >= 3 /\ pts = <<>> /\ exitStatus = 1

\* the crossing input, in the order P0, P2, P1, P3
Crossing == << <<0, 0, 0>>, <<10, 10, 0>>, <<0, 10, 0>>, <<10, 0, 0>> >>

\* C7: on the crossing input (input-order length about 38.28) the optimized
\* order visits P0, P1, P2, P3, that is indices 0, 2, 1, 3, and its length
\* is 30.
C7_Crossing ==
    (Returned /\ pts = Crossing) =>
        /\ 3828 * Scale <= 100 * origLen
        /\ 100 * origLen < 3829 * Scale
        /\ optOrder = <<0, 2, 1, 3>>
        /\ Rows(pts, optOrder)
             = << <<0, 0, 0>>, <<0, 10, 0>>, <<10, 10, 0>>, <<10, 0, 0>> >>
        /\ optLen = 30 * Scale

C7_Witness == pc = "gui" /\ pts = Crossing /\ out = Rows(pts, <<0, 2, 1, 3>>)

\* C8 as stated: with n >= 4 no reversal of the entries at positions i..j,
\* 1 <= i <= j <= n-2, of the order handed to output gives a strictly
\* shorter path.
C8_TwoOptOptimum ==
    (Returned /\ N >= 4) =>
        \A i \in 1..(N - 2) : \A j \in i..(N - 2) :
            ~(computePathLength(pts, Reversed(optOrder, i, j)) < optLen)

\* C8 amended: the order handed to output is the order optimizePath
\* returned, unchanged, and with n >= 4 no reversal of a tail of it
\* (positions i..n-1, i >= 1) gives a strictly shorter path: the edge into
\* position i is never longer than the edge that replaces it, from position
\* i-1 to the last entry.
C8_TailOptimum ==
    (Returned /\ N >= 4) =>
        /\ optOrder = order
        /\ pc \in {"gui", "exit"} /\ exitStatus # 1 => out = Rows(pts, order)
        /\ \A i \in 1..(N - 1) :
            /\ Dist(pts[optOrder[i + 1] + 1], pts[optOrder[i] + 1])
                  <= Dist(pts[optOrder[N] + 1], pts[optOrder[i] + 1])
            /\ ~(computePathLength(pts, Reversed(optOrder, i, N - 1)) < optLen)

\* written output of four or more points where the tail reversal at some
\* position is strictly longer and the order differs from the input order
C8_Witness ==
    /\ pc = "gui"
    /\ N >= 4
    /\ out = Rows(pts, optOrder)
    /\ optOrder # origOrder
    /\ \E i \in 1..(N - 2) :
         computePathLength(pts, Reversed(optOrder, i, N - 1)) > optLen

\* C9: every iteration of the selection loop moves exactly one index from
\* the unvisited list to the end of the order, the loop is left only with
\* the unvisited list empty and after exactly n-1 iterations, and it is
\* always left.
C9_LoopSteps ==
    /\ [][ /\ (pc = "loop" /\ pc' = "loop") =>
                /\ iters' = iters + 1
                /\ Len(order') = Len(order) + 1
                /\ Len(remaining') = Len(remaining) - 1
                /\ SubSeq(order', 1, Len(order)) = order
                /\ \E i \in 1..Len(remaining) :
                     /\ order'[Len(order')] = remaining[i]
                     /\ remaining' = [k \in 1..(Len(remaining) - 1) |->
                                        IF k < i THEN remaining[k]
                                                 ELSE remaining[k + 1]]
           /\ (pc = "loop" /\ pc' # "loop") =>
                /\ remaining = <<>>
                /\ iters = N - 1
         ]_vars
    /\ (pc = "loop") ~> (pc = "write" /\ remaining = <<>> /\ iters = N - 1)

C9_Witness == pc = "write" /\ N >= 3 /\ iters = N - 1 /\ remaining = <<>>

\* C10: whenever the loop condition is evaluated, order and remaining
\* partition [0, n), remaining is strictly ascending, and current is the
\* last entry of order.
C10_LoopInvariant ==
    pc = "loop" =>
        /\ \A k \in 0..(N - 1) :
             Cardinality({i \in 1..Len(order) : order[i] = k})
               + Cardinality({i \in 1..Len(remaining) : remaining[i] = k}) = 1
        /\ Len(order) + Len(remaining) = N
        /\ \A i \in 1..(Len(remaining) - 1) : remaining[i] < remaining[i + 1]
        /\ Len(order) >= 1
        /\ current = order[Len(order)]

C10_Witness ==
    pc = "loop" /\ Len(order) >= 2 /\ Len(remaining) >= 2 /\ remaining[1] # Len(order)

====
